---- MODULE Spec2Model ----
(***************************************************************************)
(* Pandora Alignments Report (src/app.py): a Streamlit script that reads   *)
(* an uploaded alignment log, loads its data block into a typed table,     *)
(* flags the "Good Scan" rows against the file's mean weighting factor and *)
(* reports the percentage of good scans per month and per day of a         *)
(* selected date range.  The script runs top to bottom on every            *)
(* interaction (upload, threshold change, slider move); one action of the  *)
(* model is one such run.                                                  *)
(***************************************************************************)
EXTENDS Integers, Sequences, FiniteSets, TLC

VARIABLES uploaded_file, threshold, slider_value, data, df,
          average_weighting_factor, monthly_report_df, bar_colors,
          slider_bounds, slider_default, daily_report_df, shown, exception,
          prev_narrow

vars == <<uploaded_file, threshold, slider_value, data, df,
          average_weighting_factor, monthly_report_df, bar_colors,
          slider_bounds, slider_default, daily_report_df, shown, exception,
          prev_narrow>>

(***************************************************************************)
(* float64 arithmetic.  pandas holds the numeric columns as IEEE-754       *)
(* doubles.  A finite positive double of the model is held exactly as a    *)
(* fixed-point number: five limbs of LimbBits bits, most significant       *)
(* first, in units of 2^-60.       Every value the model computes lies in *)
(* [2^-6, 2^14], so its 53 significant bits fit above the unit and the     *)
(* operations below round exactly as the hardware does (round to nearest,  *)
(* ties to even); there is no overflow or underflow in that range.         *)
(***************************************************************************)
LimbBits == 15
NLimbs == 5
MantBits == 53
Base == 2^LimbBits

Pow2(k) == 2^k

\* the limbs of a number as a tuple
Limbs(n) == <<n[1], n[2], n[3], n[4], n[5]>>

\* bit k (0 = least significant) of the fixed-point number n
Bit(n, k) == (n[NLimbs - (k \div LimbBits)] \div Pow2(k % LimbBits)) % 2

\* number of significant bits of a limb value x < Base
RECURSIVE LimbLen(_)
LimbLen(x) == IF x = 0 THEN 0 ELSE 1 + LimbLen(x \div 2)

\* number of significant bits of n (0 for zero)
BitLen(n) ==
    LET nz == {i \in 1..NLimbs : n[i] # 0}
    IN IF nz = {} THEN 0
       ELSE LET top == CHOOSE i \in nz : \A j \in nz : i <= j
            IN LimbBits * (NLimbs - top) + LimbLen(n[top])

\* limbs 1..i of the exact sum a + b, given the carry into limb i
RECURSIVE AddLimbs(_, _, _, _)
AddLimbs(a, b, i, carry) ==
    IF i = 0 THEN <<>>
    ELSE Append(AddLimbs(a, b, i - 1, (a[i] + b[i] + carry) \div Base),
                (a[i] + b[i] + carry) % Base)

\* exact sum of two fixed-point numbers
BigAdd(a, b) == AddLimbs(a, b, NLimbs, 0)

\* 2^s as a fixed-point number
BigPow2(s) ==
    Limbs([i \in 1..NLimbs |->
        IF i = NLimbs - (s \div LimbBits) THEN Pow2(s % LimbBits) ELSE 0])

\* n with its s low bits cleared
Truncate(n, s) ==
    Limbs([i \in 1..NLimbs |->
        LET q == NLimbs - (s \div LimbBits)
        IN IF i < q THEN n[i]
           ELSE IF i > q THEN 0
           ELSE (n[i] \div Pow2(s % LimbBits)) * Pow2(s % LimbBits)])

\* some bit below bit k of n is set
LowBitsSet(n, k) ==
    LET q == NLimbs - (k \div LimbBits)
    IN \/ \E i \in 1..NLimbs : i > q /\ n[i] # 0
       \/ n[q] % Pow2(k % LimbBits) # 0

\* IEEE round to nearest, ties to even, of (n + a fraction of a unit that is
\* non-zero iff sticky) to MantBits significant bits
RoundNearestEven(n, sticky) ==
    LET s == BitLen(n) - MantBits
    IN IF s <= 0 THEN n
       ELSE LET guard == Bit(n, s - 1) = 1
                rest  == LowBitsSet(n, s - 1) \/ sticky
                odd   == Bit(n, s) = 1
                t     == Truncate(n, s)
            IN IF guard /\ (rest \/ odd) THEN BigAdd(t, BigPow2(s)) ELSE t

\* long division of a by the small integer n from limb i on, given the
\* remainder of the limbs above: the quotient's limbs, then the remainder
RECURSIVE DivLimbs(_, _, _, _)
DivLimbs(a, n, i, rem) ==
    IF i > NLimbs THEN <<rem>>
    ELSE <<(rem * Base + a[i]) \div n>>
            \o DivLimbs(a, n, i + 1, (rem * Base + a[i]) % n)

\* float64 a + b
FAdd(a, b) == RoundNearestEven(BigAdd(a, b), FALSE)

\* float64 a / n for a small positive integer n
FDiv(a, n) ==
    LET qr == DivLimbs(a, n, 1, 0)
    IN RoundNearestEven(SubSeq(qr, 1, NLimbs), qr[NLimbs + 1] # 0)

\* float64 a > b
FGt(a, b) ==
    \E i \in 1..NLimbs : a[i] > b[i] /\ \A j \in 1..(i - 1) : a[j] = b[j]

Zero == Limbs([i \in 1..NLimbs |-> 0])

\* a float64 cell of the table: NaN or a finite value
NaN == [nan |-> TRUE, v |-> Zero]
Num(v) == [nan |-> FALSE, v |-> v]

(***************************************************************************)
(* Text.  A line is the sequence of its lexemes: a whitespace character SP *)
(* or a word (a maximal run of non-whitespace characters); two words of a  *)
(* line are always separated by at least one SP.  A file is the sequence   *)
(* of lines that splitlines() yields.                                      *)
(***************************************************************************)
SP == " "

\* the words that contain the separator marker, a run of 16 dashes
DashWords == {"----------------", "--------------------", "#----------------"}

\* "----------------" in line
HasSeparator(line) == \E i \in 1..Len(line) : line[i] \in DashWords

\* line.strip()
RECURSIVE LStrip(_)
LStrip(line) ==
    IF line # <<>> /\ Head(line) = SP THEN LStrip(Tail(line)) ELSE line

RECURSIVE RStrip(_)
RStrip(line) ==
    IF line # <<>> /\ line[Len(line)] = SP
    THEN RStrip(SubSeq(line, 1, Len(line) - 1)) ELSE line

Strip(line) == RStrip(LStrip(line))

\* line.split(): the words between runs of whitespace
RECURSIVE Split(_)
Split(line) ==
    IF line = <<>> THEN <<>>
    ELSE IF Head(line) = SP THEN Split(Tail(line))
    ELSE <<Head(line)>> \o Split(Tail(line))

\* the loop over lines: data_lines after the lines from index i on, given
\* separator_count and data_lines so far
RECURSIVE CollectLines(_, _, _, _)
CollectLines(lines, i, separator_count, data_lines) ==
    IF i > Len(lines) THEN data_lines
    ELSE IF HasSeparator(lines[i])
         THEN CollectLines(lines, i + 1, separator_count + 1, data_lines)
    ELSE IF separator_count = 2
         THEN CollectLines(lines, i + 1, separator_count,
                           Append(data_lines, Strip(lines[i])))
    ELSE CollectLines(lines, i + 1, separator_count, data_lines)

\* data = [line.split() for line in data_lines if line]
RECURSIVE SplitNonEmpty(_)
SplitNonEmpty(data_lines) ==
    IF data_lines = <<>> THEN <<>>
    ELSE IF Head(data_lines) = <<>> THEN SplitNonEmpty(Tail(data_lines))
    ELSE <<Split(Head(data_lines))>> \o SplitNonEmpty(Tail(data_lines))

ParseFile(lines) == SplitNonEmpty(CollectLines(lines, 1, 0, <<>>))

(***************************************************************************)
(* Typed loading.                                                          *)
(***************************************************************************)
\* the cell pandas puts where a row is shorter than the column list
NoneCell == "<None>"

\* pd.to_numeric(errors='coerce') on the tokens of the model
ToNumeric(tok) ==
    CASE tok = "0.7"  -> Num(<<0, 22937, 19660, 26214, 13056>>)
      [] tok = "10"   -> Num(<<10, 0, 0, 0, 0>>)
      [] tok = "20"   -> Num(<<20, 0, 0, 0, 0>>)
      [] tok = "30"   -> Num(<<30, 0, 0, 0, 0>>)
      [] tok = "45.5" -> Num(<<45, 16384, 0, 0, 0>>)
      [] OTHER        -> NaN

\* a timestamp is <<year, month, day, hour>>; NaT is the null timestamp
NaT == <<0, 0, 0, 0>>

\* pd.to_datetime(errors='coerce') on the tokens of the model
ToDatetime(tok) ==
    CASE tok = "2023-12-31T23:10:00" -> <<2023, 12, 31, 23>>
      [] tok = "2024-01-01T03:05:00" -> <<2024, 1, 1, 3>>
      [] tok = "2024-01-01T18:30:00" -> <<2024, 1, 1, 18>>
      [] tok = "2024-01-02T12:00:00" -> <<2024, 1, 2, 12>>
      [] OTHER                       -> NaT

\* lexicographic order of two tuples of integers of the same length
RECURSIVE TupleLess(_, _)
TupleLess(a, b) ==
    IF a = <<>> THEN FALSE
    ELSE IF Head(a) # Head(b) THEN Head(a) < Head(b)
    ELSE TupleLess(Tail(a), Tail(b))

TupleLeq(a, b) == a = b \/ TupleLess(a, b)

\* .dt.date, .dt.year, .dt.month of a non-null timestamp
DateOf(ts) == <<ts[1], ts[2], ts[3]>>
YearOf(ts) == ts[1]
MonthOf(ts) == ts[2]

\* Layout with the width test relaxed to "at most"
LayoutLenient(rows) ==
    IF Len(rows[1]) <= 8 THEN 8 ELSE IF Len(rows[1]) <= 12 THEN 12 ELSE 0

\* the number of columns of the layout that the first row selects, 0 when
\* the format is not recognized
Layout(rows) ==
    IF Len(rows[1]) = 8 THEN 8 ELSE IF Len(rows[1]) = 12 THEN 12 ELSE 0

\* the cell of a row under column c of the frame
Cell(row, c) == IF c <= Len(row) THEN row[c] ELSE NoneCell

\* pd.DataFrame(data, columns=column_names) raises ValueError when a row
\* has more cells than there are columns
TooManyCells(rows, ncols) == \E i \in 1..Len(rows) : Len(rows[i]) > ncols

\* CombinedWeight with a NaN operand taken as 0.0
CombinedWeightNullAsZero(a, b) ==
    Num(FDiv(FAdd(IF a.nan THEN Zero ELSE a.v, IF b.nan THEN Zero ELSE b.v), 2))

\* float64 (a + b) / 2, NaN when either is NaN
CombinedWeight(a, b) ==
    IF a.nan \/ b.nan THEN NaN ELSE Num(FDiv(FAdd(a.v, b.v), 2))

\* the "Weighting factor" cell of a row in the 8- or 12-column layout
WeightingFactor(row, ncols) ==
    IF ncols = 8 THEN ToNumeric(Cell(row, 8))
    ELSE CombinedWeight(ToNumeric(Cell(row, 8)), ToNumeric(Cell(row, 12)))

\* the first n values of f as a sequence
RECURSIVE Column(_, _)
Column(f, n) == IF n = 0 THEN <<>> ELSE Append(Column(f, n - 1), f[n])

\* the typed table: per row the parsed timestamp and the weighting factor
LoadTable(rows, ncols) ==
    Column([i \in 1..Len(rows) |->
               [time |-> ToDatetime(Cell(rows[i], 1)),
                wf   |-> WeightingFactor(rows[i], ncols)]], Len(rows))

(***************************************************************************)
(* Good-scan classification.                                               *)
(***************************************************************************)
\* float64 sum of rows 1..i in row order, NaN cells counting as 0.0
RECURSIVE NanSum(_, _)
NanSum(col, i) ==
    IF i = 0 THEN Zero
    ELSE FAdd(NanSum(col, i - 1), IF col[i].nan THEN Zero ELSE col[i].v)

NotNullCount(col) == Cardinality({i \in 1..Len(col) : ~col[i].nan})

\* Mean with the NaN cells counted as rows of value 0.0
MeanOverAllRows(col) ==
    IF NotNullCount(col) = 0 THEN NaN
    ELSE Num(FDiv(NanSum(col, Len(col)), Len(col)))

\* Series.mean(): skips NaN; NaN when nothing is left
Mean(col) ==
    IF NotNullCount(col) = 0 THEN NaN
    ELSE Num(FDiv(NanSum(col, Len(col)), NotNullCount(col)))

\* wf > average_weighting_factor, False when either side is NaN
GoodScan(wf, avg) == ~wf.nan /\ ~avg.nan /\ FGt(wf.v, avg.v)

WeightColumn(table) ==
    Column([i \in 1..Len(table) |-> table[i].wf], Len(table))

\* the table with its "Good Scan" column
Classify(table, avg) ==
    Column([i \in 1..Len(table) |->
               [time |-> table[i].time, wf |-> table[i].wf,
                good |-> GoodScan(table[i].wf, avg)]], Len(table))

(***************************************************************************)
(* Aggregation.                                                            *)
(***************************************************************************)
RECURSIVE GCD(_, _)
GCD(a, b) == IF b = 0 THEN a ELSE GCD(b, a % b)

\* mean of a boolean column times 100, as a fraction in lowest terms
Percent(good, total) ==
    LET g == GCD(100 * good, total)
    IN <<(100 * good) \div g, total \div g>>

\* SortKeys with the order reversed
RECURSIVE SortKeysDescending(_)
SortKeysDescending(S) ==
    IF S = {} THEN <<>>
    ELSE LET hi == CHOOSE k \in S : \A o \in S : TupleLeq(o, k)
         IN <<hi>> \o SortKeysDescending(S \ {hi})

\* the keys of a set in ascending order (groupby sorts its keys)
RECURSIVE SortKeys(_)
SortKeys(S) ==
    IF S = {} THEN <<>>
    ELSE LET lo == CHOOSE k \in S : \A o \in S : TupleLeq(k, o)
         IN <<lo>> \o SortKeys(S \ {lo})

\* the rows grouped under key k
Group(keys, k) == {i \in 1..Len(keys) : keys[i] = k}

\* groupby(keys)["Good Scan"].mean() * 100 as rows [key, pct], where keys[i]
\* is the key of row i (NoKey for a null key, which groupby drops)
GroupPercent(keys, good, NoKey) ==
    LET order == SortKeys({keys[i] : i \in 1..Len(keys)} \ {NoKey})
    IN Column([n \in 1..Len(order) |->
                  LET g == Group(keys, order[n])
                  IN [key |-> order[n],
                      pct |-> Percent(Cardinality({i \in g : good[i]}),
                                      Cardinality(g))]], Len(order))

GoodColumn(table) ==
    Column([i \in 1..Len(table) |-> table[i].good], Len(table))

\* the "Year" and "Month" columns, null for a null timestamp
YearMonth(ts) == IF ts = NaT THEN <<0, 0>> ELSE <<YearOf(ts), MonthOf(ts)>>

\* monthly_report_df
MonthlyReport(table) ==
    GroupPercent(Column([i \in 1..Len(table) |-> YearMonth(table[i].time)],
                        Len(table)),
                 GoodColumn(table), <<0, 0>>)

\* FilterRange with the end date excluded
RECURSIVE FilterRangeOpenEnd(_, _, _)
FilterRangeOpenEnd(table, start_date, end_date) ==
    IF table = <<>> THEN <<>>
    ELSE LET r == Head(table)
             rest == FilterRangeOpenEnd(Tail(table), start_date, end_date)
         IN IF /\ r.time # NaT
               /\ TupleLeq(start_date, DateOf(r.time))
               /\ TupleLess(DateOf(r.time), end_date)
            THEN <<r>> \o rest ELSE rest

\* df_filtered: rows whose date lies in [start_date, end_date]
RECURSIVE FilterRange(_, _, _)
FilterRange(table, start_date, end_date) ==
    IF table = <<>> THEN <<>>
    ELSE LET r == Head(table)
             rest == FilterRange(Tail(table), start_date, end_date)
         IN IF /\ r.time # NaT
               /\ TupleLeq(start_date, DateOf(r.time))
               /\ TupleLeq(DateOf(r.time), end_date)
            THEN <<r>> \o rest ELSE rest

\* DailyReport with the rows classified again, against the mean of the
\* filtered rows
DailyReportRangeBaseline(filtered) ==
    GroupPercent(Column([i \in 1..Len(filtered) |-> DateOf(filtered[i].time)],
                        Len(filtered)),
                 GoodColumn(Classify(filtered, Mean(WeightColumn(filtered)))),
                 <<0, 0, 0>>)

\* daily_report_df of the filtered table
DailyReport(filtered) ==
    GroupPercent(Column([i \in 1..Len(filtered) |-> DateOf(filtered[i].time)],
                        Len(filtered)),
                 GoodColumn(filtered), <<0, 0, 0>>)

\* "red" if pct < threshold else "green", per row of a report
BarColors(report, th) ==
    Column([n \in 1..Len(report) |->
               IF report[n].pct[1] < th * report[n].pct[2]
               THEN "red" ELSE "green"], Len(report))

\* Timestamps with NaT not skipped
TimestampsWithNaT(table) == {table[i].time : i \in 1..Len(table)}

\* min and max of the timestamp column (NaT skipped), as dates
Timestamps(table) == {table[i].time : i \in 1..Len(table)} \ {NaT}
MinDate(table) ==
    DateOf(CHOOSE t \in Timestamps(table) :
              \A o \in Timestamps(table) : TupleLeq(t, o))
MaxDate(table) ==
    DateOf(CHOOSE t \in Timestamps(table) :
              \A o \in Timestamps(table) : TupleLeq(o, t))

(***************************************************************************)
(* One run of the script.                                                  *)
(***************************************************************************)
NoDate == <<0, 0, 0>>
NoRange == <<NoDate, NoDate>>

NoDataError == "No data found in the file."
FormatError == "File format not recognized. Expected 8 or 12 columns."
NoValidDates == "No valid dates found in the uploaded file."
NoDataInRange == "No data found for the selected date range."
PleaseUpload == "Please upload a .txt file to generate the monthly and daily reports."
ThresholdInput == "Threshold for Good Scans (%)"
MonthlyChart == "Monthly Good Scan Report"
DateSlider == "Select date range"
DailyChart == "Daily Report of Pandora Alignments"

DefaultThreshold == 21

\* what a run leaves when it produces nothing
Blank ==
    [data |-> <<>>, df |-> <<>>, average_weighting_factor |-> NaN,
     monthly_report_df |-> <<>>, bar_colors |-> <<<<>>, <<>>>>,
     threshold |-> DefaultThreshold,
     slider_bounds |-> NoRange, slider_default |-> NoRange,
     slider_value |-> NoRange,
     daily_report_df |-> <<>>, shown |-> {}, exception |-> ""]

\* the part of a run from the date slider on, given the classified table,
\* the result so far, and the slider's stored state (bounds, value); the
\* slider keeps its stored value while its bounds stay the same
DailySection(table, sofar, th, stored) ==
    IF Timestamps(table) = {}
    THEN [sofar EXCEPT !.shown = @ \cup {NoValidDates}]
    ELSE LET bounds == <<MinDate(table), MaxDate(table)>>
             default == <<MinDate(table), MaxDate(table)>>
             value == IF stored[1] = bounds THEN stored[2] ELSE default
             df_filtered == FilterRange(table, value[1], value[2])
             offered == [sofar EXCEPT !.slider_bounds = bounds,
                                      !.slider_default = default,
                                      !.slider_value = value,
                                      !.shown = @ \cup {DateSlider}]
             daily == DailyReport(df_filtered)
         IN IF df_filtered # <<>>
            THEN [offered EXCEPT
                     !.daily_report_df = daily,
                     !.bar_colors[2] = BarColors(daily, th),
                     !.shown = @ \cup {DailyChart}]
            ELSE [offered EXCEPT !.shown = @ \cup {NoDataInRange}]

\* the run for an uploaded file, the threshold and the slider's stored state
Script(lines, th, stored) ==
    LET rows == ParseFile(lines)
    IN IF rows = <<>>
       THEN [Blank EXCEPT !.shown = {NoDataError}]
       ELSE IF Layout(rows) = 0
       THEN [Blank EXCEPT !.data = rows, !.shown = {FormatError}]
       ELSE IF TooManyCells(rows, Layout(rows))
       THEN [Blank EXCEPT !.data = rows, !.exception = "ValueError"]
       ELSE LET loaded == LoadTable(rows, Layout(rows))
                avg == Mean(WeightColumn(loaded))
                table == Classify(loaded, avg)
                monthly == MonthlyReport(table)
            IN DailySection(table,
                  [Blank EXCEPT
                      !.data = rows, !.df = table,
                      !.average_weighting_factor = avg,
                      !.monthly_report_df = monthly,
                      !.threshold = th,
                      !.bar_colors[1] = BarColors(monthly, th),
                      !.shown = {ThresholdInput, MonthlyChart}],
                  th, stored)

\* the variables after a run with result r
Show(r) ==
    /\ data' = r.data
    /\ df' = r.df
    /\ average_weighting_factor' = r.average_weighting_factor
    /\ monthly_report_df' = r.monthly_report_df
    /\ bar_colors' = r.bar_colors
    /\ threshold' = r.threshold
    /\ slider_bounds' = r.slider_bounds
    /\ slider_default' = r.slider_default
    /\ slider_value' = r.slider_value
    /\ daily_report_df' = r.daily_report_df
    /\ shown' = r.shown
    /\ exception' = r.exception

(***************************************************************************)
(* Inputs.                                                                 *)
(***************************************************************************)
MaxData == 3
MaxLines == 4

\* the words of a line joined by single spaces
RECURSIVE Join(_)
Join(words) ==
    IF Len(words) <= 1 THEN words
    ELSE <<Head(words), SP>> \o Join(Tail(words))

T1 == "2023-12-31T23:10:00"
T2 == "2024-01-01T03:05:00"
T2b == "2024-01-01T18:30:00"
T3 == "2024-01-02T12:00:00"
TBad == "n/a"

Line8(ts, wf) == Join(<<ts, "IO", "45.5", "45.5", "45.5", "45.5", "0.7", wf>>)
Line12(ts, wf1, wf2) ==
    Join(<<ts, "IO", "45.5", "45.5", "45.5", "45.5", "0.7", wf1,
           "45.5", "45.5", "0.7", wf2>>)
Line7(ts) == Join(<<ts, "IO", "45.5", "45.5", "45.5", "45.5", "0.7">>)
Line9(ts, wf) == Line8(ts, wf) \o <<SP, "extra">>
Line13(ts, wf1, wf2) == Line12(ts, wf1, wf2) \o <<SP, "extra">>

Pool8 ==
    { Line8(T1, "10"), Line8(T2, "0.7"), Line8(T2b, "20"), Line8(T3, "20"),
      Line8(T3, "x"), Line8(TBad, "20") }

Pool12 ==
    { Line12(T3, "30", "10"), Line12(T1, "10", "10"),
      Line12(T3, "x", "20"), Line12(T2, "20", "x") }

SepLine == <<"----------------">>
Prelude == <<<<"File", SP, "name:", SP, "Pandora1">>, <<"--------------------">>,
             <<"Column", SP, "1:", SP, "UT">>, SepLine>>

SeqsUpTo(S, n) == UNION {[1..k -> S] : k \in 1..n}

\* well-formed files: a header and up to MaxData records of one layout
UniformBodies == SeqsUpTo(Pool8, MaxData) \cup SeqsUpTo(Pool12, MaxData)

\* files whose lines differ in token count
RaggedBodies ==
    {<<a, b>> : a \in Pool8,
                b \in {Line7(T3), Line9(T3, "20"), Line12(T3, "30", "10")}}
    \cup {<<a, b>> : a \in Pool12,
                     b \in {Line8(T3, "30"), Line13(T3, "30", "10")}}
    \cup {<<Line7(T1)>>, <<Line7(T1), Line8(T2, "0.7")>>,
          <<Line9(T1, "10"), Line8(T2, "0.7")>>,
          <<Line13(T1, "10", "10")>>}

\* short files over a few kinds of line, for the parser
LineKinds ==
    { SepLine, <<SP>>, <<"---------------">>,
      <<SP, "a", SP, SP, "b", SP>>, <<SP>> \o Line8(T2, "10") \o <<SP>> }

Files ==
    {Prelude \o b : b \in UniformBodies \cup RaggedBodies}
    \cup {<<>>} \cup SeqsUpTo(LineKinds, MaxLines)

\* files that may replace an uploaded file without removing it first
ReplacementFiles ==
    { Prelude \o <<Line8(T1, "20"), Line8(T2, "10"), Line8(T3, "x")>> }

Thresholds == {DefaultThreshold, 50}

\* the days from date a to date b of the calendar the timestamps lie in
Calendar == <<<<2023, 12, 31>>, <<2024, 1, 1>>, <<2024, 1, 2>>>>
Days(a, b) ==
    {Calendar[i] : i \in {j \in 1..Len(Calendar) :
                            TupleLeq(a, Calendar[j]) /\ TupleLeq(Calendar[j], b)}}

(***************************************************************************)
(* The state machine.  prev_narrow records that the run before this one    *)
(* was on the same file with a selected range narrower than the slider's   *)
(* bounds.                                                                 *)
(***************************************************************************)
NoFile == <<>>

Init ==
    /\ uploaded_file = NoFile
    /\ data = Blank.data
    /\ df = Blank.df
    /\ average_weighting_factor = Blank.average_weighting_factor
    /\ monthly_report_df = Blank.monthly_report_df
    /\ bar_colors = Blank.bar_colors
    /\ threshold = Blank.threshold
    /\ slider_bounds = Blank.slider_bounds
    /\ slider_default = Blank.slider_default
    /\ slider_value = Blank.slider_value
    /\ daily_report_df = Blank.daily_report_df
    /\ shown = {PleaseUpload}
    /\ exception = Blank.exception
    /\ prev_narrow = FALSE

\* the script runs on a newly chosen file with the widgets' stored state
RunOn(f) ==
    /\ uploaded_file' = <<f>>
    /\ \E r \in {Script(f, threshold, <<slider_bounds, slider_value>>)} : Show(r)
    /\ prev_narrow' = FALSE

\* the user uploads a file
Upload == uploaded_file = NoFile /\ \E f \in Files : RunOn(f)

\* the user replaces the uploaded file by another
Replace ==
    /\ uploaded_file # NoFile
    /\ \E f \in ReplacementFiles : uploaded_file # <<f>> /\ RunOn(f)

\* the user removes the file: the script shows the prompt only
Remove ==
    /\ uploaded_file # NoFile
    /\ uploaded_file' = NoFile
    /\ Show([Blank EXCEPT !.shown = {PleaseUpload}])
    /\ prev_narrow' = FALSE

\* the user changes the threshold: the script runs again on the same file
SetThreshold(t) ==
    /\ ThresholdInput \in shown
    /\ t # threshold
    /\ \E r \in {Script(uploaded_file[1], t, <<slider_bounds, slider_value>>)} :
          Show(r)
    /\ prev_narrow' = (slider_value # slider_bounds)
    /\ UNCHANGED uploaded_file

\* the user moves the slider: the script runs again on the same file
SetRange(start_date, end_date) ==
    /\ DateSlider \in shown
    /\ start_date \in Days(slider_bounds[1], slider_bounds[2])
    /\ end_date \in Days(start_date, slider_bounds[2])
    /\ <<start_date, end_date>> # slider_value
    /\ \E r \in {Script(uploaded_file[1], threshold,
                          <<slider_bounds, <<start_date, end_date>>>>)} : Show(r)
    /\ prev_narrow' = (slider_value # slider_bounds)
    /\ UNCHANGED uploaded_file

Next ==
    \/ Upload
    \/ Replace
    \/ Remove
    \/ \E t \in Thresholds : SetThreshold(t)
    \/ \E s \in Days(slider_bounds[1], slider_bounds[2]) :
         \E e \in Days(s, slider_bounds[2]) : SetRange(s, e)

Spec == Init /\ [][Next]_vars

(***************************************************************************)
(* Properties.                                                             *)
(***************************************************************************)
\* the run loaded and classified a table
Loaded == ThresholdInput \in shown

\* a date as the number yyyymmdd
DateNum(d) == d[1] * 10000 + d[2] * 100 + d[3]

\* the rows of df with a non-null timestamp
Dated == {i \in 1..Len(df) : df[i].time # NaT}

\* the non-blank lines after line i that hold no separator, as word lists
RECURSIVE LinesAfter(_, _)
LinesAfter(lines, i) ==
    IF i >= Len(lines) THEN <<>>
    ELSE LET line == lines[i + 1]
             words == SelectSeq(line, LAMBDA w : w # SP)
         IN IF words # <<>> /\ \A k \in 1..Len(line) : line[k] \notin DashWords
            THEN <<words>> \o LinesAfter(lines, i + 1)
            ELSE LinesAfter(lines, i + 1)

\* the index of the second separator line, Len(lines) when there is none
SecondSeparator(lines) ==
    LET seps == {i \in 1..Len(lines) : HasSeparator(lines[i])}
    IN IF Cardinality(seps) < 2 THEN Len(lines)
       ELSE CHOOSE i \in seps : Cardinality({j \in seps : j < i}) = 1

\* C1: the parser's output is the sequence of all non-blank lines after the
\* second separator line up to the end of the file, in file order, each split
\* on whitespace, whatever further separator lines the file holds.
C1_AllLinesAfterSecondSeparator ==
    uploaded_file # NoFile =>
        data = LinesAfter(uploaded_file[1], SecondSeparator(uploaded_file[1]))

\* the non-null weighting factors of df, in row order
RECURSIVE NonNullWeights(_)
NonNullWeights(n) ==
    IF n = 0 THEN <<>>
    ELSE IF df[n].wf.nan THEN NonNullWeights(n - 1)
    ELSE Append(NonNullWeights(n - 1), df[n].wf.v)

\* float64 sum of a non-empty sequence of values, left to right
RECURSIVE SumOf(_)
SumOf(w) ==
    IF Len(w) = 1 THEN w[1]
    ELSE FAdd(SumOf(SubSeq(w, 1, Len(w) - 1)), w[Len(w)])

\* the mean of the non-null weighting factors, NaN when there is none
MeanOfNonNull ==
    LET w == NonNullWeights(Len(df))
    IN IF w = <<>> THEN NaN ELSE Num(FDiv(SumOf(w), Len(w)))

Fifteen == Num(<<15, 0, 0, 0, 0>>)

\* C2: a record is a good scan iff its weighting factor is non-null and
\* strictly greater than the mean of the non-null weighting factors (nulls
\* are in neither its sum nor its count: [10, null, 20] gives 15); when all
\* weighting factors are null no record is good and nothing is raised.
C2_GoodScanAboveMeanOfNonNull ==
    Loaded =>
        /\ average_weighting_factor = MeanOfNonNull
        /\ \E avg \in {MeanOfNonNull} :
              \A i \in 1..Len(df) :
                 df[i].good <=> /\ ~df[i].wf.nan
                                /\ ~avg.nan
                                /\ FGt(df[i].wf.v, avg.v)
        /\ (\A i \in 1..Len(df) : df[i].wf.nan) =>
              /\ exception = ""
              /\ \A i \in 1..Len(df) : ~df[i].good
        /\ ([i \in 1..Len(df) |-> df[i].wf]
                = <<ToNumeric("10"), NaN, ToNumeric("20")>>) =>
              average_weighting_factor = Fifteen

\* a table with weighting factors [10, null, 20]: mean 15, the 20 is good
C2_Witness ==
    /\ Loaded
    /\ Len(df) = 3
    /\ df[1].wf = ToNumeric("10") /\ df[2].wf.nan /\ df[3].wf = ToNumeric("20")
    /\ average_weighting_factor = Fifteen
    /\ ~df[1].good /\ ~df[2].good /\ df[3].good

\* the dated rows of df in the month <<year, month>>
InMonth(ym) == {i \in Dated : df[i].time[1] = ym[1] /\ df[i].time[2] = ym[2]}

\* <<year, month>> a is before b
MonthBefore(a, b) == a[1] < b[1] \/ (a[1] = b[1] /\ a[2] < b[2])

\* C3: the monthly table has exactly one row per (year, month) that holds a
\* record with a non-null timestamp, its value is 100 * good / all records of
\* the month (null weighting factors counted in "all", null timestamps in no
\* month), and the rows are in ascending (year, month) order.
C3_MonthlyTable ==
    Loaded =>
        /\ \A i \in Dated : \E n \in 1..Len(monthly_report_df) :
              monthly_report_df[n].key = <<df[i].time[1], df[i].time[2]>>
        /\ \A n \in 1..Len(monthly_report_df) :
              /\ InMonth(monthly_report_df[n].key) # {}
              /\ monthly_report_df[n].pct[1]
                      * Cardinality(InMonth(monthly_report_df[n].key))
                 = 100 * Cardinality({i \in InMonth(monthly_report_df[n].key) :
                                         df[i].good})
                       * monthly_report_df[n].pct[2]
        /\ \A n, k \in 1..Len(monthly_report_df) :
              n < k => MonthBefore(monthly_report_df[n].key,
                                   monthly_report_df[k].key)

\* two months given out of order in the file, the later one holding a good
\* record and one with a null weighting factor: 50 %
C3_Witness ==
    /\ Loaded
    /\ Len(monthly_report_df) = 2
    /\ Len(df) = 3
    /\ MonthBefore(<<df[2].time[1], df[2].time[2]>>,
                   <<df[1].time[1], df[1].time[2]>>)
    /\ \E i \in InMonth(monthly_report_df[2].key) : df[i].wf.nan
    /\ monthly_report_df[2].pct = <<50, 1>>

\* the dated rows of df whose date lies in the selected range
InRange ==
    {i \in Dated : /\ DateNum(slider_value[1]) <= DateNum(DateOf(df[i].time))
                   /\ DateNum(DateOf(df[i].time)) <= DateNum(slider_value[2])}

\* the rows of InRange on date d
OnDate(d) == {i \in InRange : DateOf(df[i].time) = d}

\* C4: the daily aggregation uses exactly the records with a non-null
\* timestamp whose date d has start_date <= d <= end_date; if there are any,
\* the daily table has exactly one row per such date with the good-scan
\* percentage of that date's records; if there are none, "no data in range"
\* is shown and no daily table is produced.
C4_DailyTable ==
    DateSlider \in shown =>
        IF InRange # {}
        THEN /\ DailyChart \in shown
             /\ NoDataInRange \notin shown
             /\ \A i \in InRange : \E n \in 1..Len(daily_report_df) :
                   daily_report_df[n].key = DateOf(df[i].time)
             /\ \A n \in 1..Len(daily_report_df) :
                   /\ OnDate(daily_report_df[n].key) # {}
                   /\ daily_report_df[n].pct[1]
                           * Cardinality(OnDate(daily_report_df[n].key))
                      = 100 * Cardinality({i \in OnDate(daily_report_df[n].key) :
                                              df[i].good})
                            * daily_report_df[n].pct[2]
             /\ \A n, k \in 1..Len(daily_report_df) :
                   n # k => daily_report_df[n].key # daily_report_df[k].key
        ELSE /\ NoDataInRange \in shown
             /\ DailyChart \notin shown
             /\ daily_report_df = <<>>

\* a range narrower than the bounds, with records on its first and on its
\* last day and a dated record outside it
C4_Witness ==
    /\ DailyChart \in shown
    /\ slider_value # slider_bounds
    /\ slider_value[1] # slider_value[2]
    /\ OnDate(slider_value[1]) # {}
    /\ OnDate(slider_value[2]) # {}
    /\ Dated \ InRange # {}
    /\ Len(daily_report_df) = 2

\* the dates of a daily table
Dates(report) == {report[n].key : n \in 1..Len(report)}

\* a step that runs the script again on the same file with the full range
\* after a run with a narrower one
FullRangeAfterNarrower ==
    /\ uploaded_file # NoFile
    /\ uploaded_file' = uploaded_file
    /\ DateSlider \in shown
    /\ DateSlider \in shown'
    /\ slider_value # slider_bounds
    /\ slider_value' = slider_bounds'

\* C5: running the daily aggregation again with the full range (min to max
\* date) after a run with a narrower range on the same file gives a strict
\* superset of the narrower run's daily buckets, and every date of both runs
\* has the same percentage.
C5_FullRangeSuperset ==
    [][FullRangeAfterNarrower =>
          /\ Dates(daily_report_df) \subseteq Dates(daily_report_df')
          /\ Dates(daily_report_df) # Dates(daily_report_df')
          /\ \A n \in 1..Len(daily_report_df) :
                \A k \in 1..Len(daily_report_df') :
                   daily_report_df[n].key = daily_report_df'[k].key =>
                       daily_report_df[n].pct = daily_report_df'[k].pct]_vars

\* a full-range run right after a narrower run of the same file
C5_Witness ==
    /\ prev_narrow
    /\ slider_value = slider_bounds
    /\ DailyChart \in shown
    /\ Len(daily_report_df) >= 2
    /\ \E i \in 1..Len(df) : df[i].good

\* the run produced no table, chart or widget
NothingProduced ==
    /\ df = <<>>
    /\ monthly_report_df = <<>>
    /\ daily_report_df = <<>>
    /\ average_weighting_factor = NaN
    /\ shown \cap {ThresholdInput, MonthlyChart, DateSlider, DailyChart,
                   NoValidDates, NoDataInRange} = {}

\* C6: with zero data lines the "no data found" error is reported, and with
\* a first data line of neither 8 nor 12 tokens the format error is; in both
\* cases nothing is classified or aggregated and no table is produced, and
\* each error is reported only in its own case, never both.
C6_FatalErrors ==
    uploaded_file # NoFile =>
        /\ data = <<>> =>
              NoDataError \in shown /\ FormatError \notin shown /\ NothingProduced
        /\ (data # <<>> /\ Len(data[1]) \notin {8, 12}) =>
              FormatError \in shown /\ NoDataError \notin shown /\ NothingProduced
        /\ NoDataError \in shown => data = <<>>
        /\ FormatError \in shown => (data # <<>> /\ Len(data[1]) \notin {8, 12})

\* a first data line of 7 tokens followed by a well-formed line
C6_Witness ==
    /\ uploaded_file # NoFile
    /\ Len(data) = 2
    /\ Len(data[1]) = 7
    /\ Len(data[2]) = 8
    /\ shown = {FormatError}

\* the file has the dual-instrument layout
Dual == data # <<>> /\ Len(data[1]) = 12

\* an instrument's weighting factor of row i is missing or non-numeric
NonNumericWeight(i) ==
    ToNumeric(Cell(data[i], 8)).nan \/ ToNumeric(Cell(data[i], 12)).nan

\* the good-scan percentages of a report are taken over all rows of a bucket
PercentOverAll(report, Bucket(_)) ==
    \A n \in 1..Len(report) :
        report[n].pct[1] * Cardinality(Bucket(report[n].key))
          = 100 * Cardinality({i \in Bucket(report[n].key) : df[i].good})
                * report[n].pct[2]

\* the good-scan percentages of a report are taken over the rows of a bucket
\* that have a weighting factor
PercentOverRated(report, Bucket(_)) ==
    \A n \in 1..Len(report) :
        LET rated == {i \in Bucket(report[n].key) : ~df[i].wf.nan}
        IN rated # {} =>
             report[n].pct[1] * Cardinality(rated)
               = 100 * Cardinality({i \in rated : df[i].good}) * report[n].pct[2]

\* C7 as stated: in a dual-instrument file a record with a non-numeric
\* instrument weighting factor has a null combined weighting factor and is in
\* neither the numerator nor the denominator of the average weighting factor
\* or of any monthly or daily percentage.
C7_NullExcludedFromAllRatios ==
    (Loaded /\ Dual) =>
        /\ \A i \in 1..Len(df) : NonNumericWeight(i) => df[i].wf.nan
        /\ average_weighting_factor = MeanOfNonNull
        /\ PercentOverRated(monthly_report_df, InMonth)
        /\ PercentOverRated(daily_report_df, OnDate)

\* C7 as amended: in a dual-instrument file a record with a non-numeric
\* instrument weighting factor has a null combined weighting factor (not
\* zero) and is in neither the numerator nor the denominator of the average
\* weighting factor; it is classified not good and counts in the
\* denominator, never the numerator, of the monthly and daily percentages.
C7_NullCountsAsNotGood ==
    (Loaded /\ Dual) =>
        /\ \A i \in 1..Len(df) :
              NonNumericWeight(i) => df[i].wf.nan /\ ~df[i].good
        /\ average_weighting_factor = MeanOfNonNull
        /\ PercentOverAll(monthly_report_df, InMonth)
        /\ PercentOverAll(daily_report_df, OnDate)

\* a dual-instrument file with a month that holds a good record and a record
\* with a non-numeric instrument weighting factor: 50 %
C7_Witness ==
    /\ Loaded /\ Dual
    /\ \E n \in 1..Len(monthly_report_df) :
          /\ \E i \in InMonth(monthly_report_df[n].key) : NonNumericWeight(i)
          /\ \E i \in InMonth(monthly_report_df[n].key) : df[i].good
          /\ monthly_report_df[n].pct = <<50, 1>>

\* C8: when the first data line has 8 or 12 tokens the run proceeds with that
\* layout and produces its output without an error, whatever the token
\* counts of the later lines.
C8_FirstLineDecidesNoCrash ==
    (data # <<>> /\ Len(data[1]) \in {8, 12}) => (exception = "" /\ Loaded)

\* C9: when every timestamp is null, "no valid dates" is shown and no date
\* range is offered, there is no daily table, the monthly table is empty and
\* nothing is raised; otherwise the date range is offered with the minimum
\* and maximum observed dates as bounds and as default value.
C9_NoValidDates ==
    Loaded =>
        IF Dated = {}
        THEN /\ NoValidDates \in shown
             /\ shown \cap {DateSlider, DailyChart, NoDataInRange} = {}
             /\ slider_bounds = NoRange
             /\ daily_report_df = <<>>
             /\ monthly_report_df = <<>>
             /\ exception = ""
        ELSE /\ NoValidDates \notin shown
             /\ DateSlider \in shown
             /\ \E lo, hi \in Dated :
                   /\ \A i \in Dated :
                         /\ DateNum(DateOf(df[lo].time)) <= DateNum(DateOf(df[i].time))
                         /\ DateNum(DateOf(df[i].time)) <= DateNum(DateOf(df[hi].time))
                   /\ slider_bounds = <<DateOf(df[lo].time), DateOf(df[hi].time)>>
             /\ slider_default = slider_bounds

\* a loaded table of two records, both with a null timestamp
C9_Witness ==
    /\ Loaded
    /\ Len(df) = 2
    /\ Dated = {}
    /\ NoValidDates \in shown

\* the rows of df with a weighting factor
Rated == {i \in 1..Len(df) : ~df[i].wf.nan}

\* C10: some record of every loaded file is not good, a record holding the
\* minimum non-null weighting factor is never good, and when all non-null
\* weighting factors are equal no record is good and every monthly and daily
\* bucket is 0 %.
C10_MinimumNeverGood ==
    Loaded =>
        /\ \E i \in 1..Len(df) : ~df[i].good
        /\ \A i \in Rated :
              (\A j \in Rated : ~FGt(df[i].wf.v, df[j].wf.v)) => ~df[i].good
        /\ (\A i, j \in Rated : df[i].wf = df[j].wf) =>
              /\ \A i \in 1..Len(df) : ~df[i].good
              /\ \A n \in 1..Len(monthly_report_df) :
                    monthly_report_df[n].pct[1] = 0
              /\ \A n \in 1..Len(daily_report_df) :
                    daily_report_df[n].pct[1] = 0

====
